---- MODULE Spec2Model ----
(***************************************************************************)
(* Bulk model training and pretrained inference of the stock prediction    *)
(* service: the Model Store (three files per symbol key), the Trainer      *)
(* (ModelTrainer.train_single_stock), the Bulk Pipeline                    *)
(* (ModelTrainer.train_all_stocks) and the Inference Path                  *)
(* (run_lstm_prediction_pretrained with its fallback run_lstm_prediction). *)
(*                                                                         *)
(* A symbol is a sequence of one-character strings.  A file of the store   *)
(* holds Absent, Corrupt (a truncated file, which no loader can read) or   *)
(* the number of the training run that wrote it.                           *)
(***************************************************************************)
EXTENDS Integers, Sequences, FiniteSets, TLC

VARIABLES
    modelFile,      \* key -> content of <model_dir>/<key>.keras
    scalerFile,     \* key -> content of <model_dir>/scalers/<key>.pkl
    metaFile,       \* key -> content of <model_dir>/metadata/<key>.json
    summaryFile,    \* market label (lower case) -> training_summary_<label>.json,
                    \* and "report" -> complete_training_report.json
    nextRun,        \* number of the next call of train_single_stock
    bulkPc,         \* position of the train_all_stocks run
    market,         \* market_name of the run
    stock_data,     \* the symbols of the dict stock_data, in iteration order
    queue,          \* symbols of stock_data not yet visited, in iteration order
    successful,     \* the list `successful` of the run (metadata records)
    failed,         \* the list `failed` of the run (symbols)
    attempted,      \* symbols for which train_single_stock has been called
    cur,            \* metadata of the training in progress
    trainResult,    \* what the latest train_single_stock call of the run returned
    returned,       \* what train_all_stocks returned (NoValue before)
    last,           \* the last request (prediction, load, status, ...) and its outcome
    trained,        \* run number -> the metadata record of the training, once it
                    \* has written its model file
    nseScalerFile,  \* NSE symbol -> content of <output_dir>/<symbol>_scaler.pkl
    nseMetaFile,    \* NSE symbol -> content of <output_dir>/<symbol>_metadata.pkl
    workers,        \* process -> its train_single_stock call (concurrent trainers)
    pipe,           \* position and report of run_full_training_pipeline
    now,            \* time.time(), in ticks
    rate_limit_store,   \* client address -> times of its requests that were let through
    response_cache,     \* cache key -> (response body, time it was cached)
    forwarded       \* client address -> time -> requests handed to a handler then

vars == <<modelFile, scalerFile, metaFile, summaryFile, nextRun, bulkPc, market,
          stock_data, queue, successful, failed, attempted, cur, trainResult,
          returned, last, trained, nseScalerFile, nseMetaFile, workers, pipe,
          now, rate_limit_store, response_cache, forwarded>>

webVars == <<now, rate_limit_store, response_cache, forwarded>>
sideVars == <<nseScalerFile, nseMetaFile, workers, pipe, webVars>>
storeVars == <<modelFile, scalerFile, metaFile>>
bulkVars == <<bulkPc, market, stock_data, queue, successful, failed, attempted, cur,
              trainResult, returned>>

----------------------------------------------------------------------------
(* Bounds of the model *)

MaxRuns == 2            \* trainings of one symbol in one behaviour

MaxRows == 14           \* rows of a frame handed to the Sequence Builder alone
MaxLookback == 8        \* lookbacks the Sequence Builder is tried with
MaxDays == 3            \* future_days of a forecast loop followed step by step
RowMargin == 3          \* frame lengths tried on each side of lookback + 50
MaxExtraSamples == 80   \* samples above the fewest an accepted frame gives
RsiExtraRows == 2       \* rows of a price series beyond the first full RSI window

(* The rate-limit middleware is run with small values of its three settings
   (300 requests, 60 s and 10 s in main.py), for MaxTime ticks of its clock *)
RATE_LIMIT_REQUESTS == 2
RATE_LIMIT_WINDOW == 2
CACHE_DURATION == 1
MaxTime == 3

(* Program constants *)

LOOKBACK == 30          \* ModelTrainer.lookback, LSTMPredictor(lookback=30)
MIN_EXTRA_ROWS == 50    \* the margin in len(df) < lookback + 50
PRETRAINED_WINDOW == 30 \* rows the pretrained path needs and slices
MA_WINDOW == 20         \* the longest rolling window of the indicators
RSI_WINDOW == 14        \* rolling(window=14) of the RSI gains and losses
FALLBACK_SIMULATIONS == 1   \* num_simulations of the fallback call
MIN_FUTURE_DAYS == 1    \* the range the HTTP layer accepts for future_days
MAX_FUTURE_DAYS == 90

SEQUENCE_LENGTH == 60   \* IndianStockTrainer.sequence_length
MIN_DATA_POINTS == 200  \* min_data_points of IndianStockTrainer.train_stock
MIN_SEQUENCES == 50     \* the fewest sequences train_stock goes on with

features == <<"Close", "Volume", "MA5", "MA10", "MA20",
              "Price_Change", "Price_Range", "Volume_Change", "RSI">>

Absent == 0
Corrupt == -1
NoValue == [none |-> TRUE]
NoSummary == [absent |-> TRUE]
CorruptSummary == [corrupt |-> TRUE]

(* Symbols of the universes (download_all_us_stocks, download_all_indian_stocks) *)
SymT == <<"T">>
SymMM == <<"M", "&", "M", ".", "N", "S">>
Universe == {SymT, SymMM}

(* A symbol a client may ask for that is in no list: get_symbol_from_query
   passes on, in upper case, whatever it cannot resolve *)
SymMANDM == <<"M", "A", "N", "D", "M", ".", "N", "S">>

(* Symbols of the SYMBOL column of the NSE data file (no exchange suffix) *)
SymR == <<"R">>
SymNSE == <<"M", "&", "M">>
IndianSymbols == {SymR, SymNSE}

(* The symbols a prediction request may name *)
Requestable == Universe \cup {SymMANDM} \cup IndianSymbols

Markets == {"Indian", "US"}

(* What download_stock_with_fallback returns: None (-1) or a frame of so many
   rows; the counts sit around the thresholds of the two paths, which both
   recompute the rolling indicators and lose MA_WINDOW - 1 rows more *)
NoFrame == -1
FetchChoices == {NoFrame, 0, 48, 49, 98, 99}

(* Values of future_days a caller may pass *)
FutureDaysChoices == {0, 1, 90, 91}

(* Cells of a feature column: a finite number, NaN, or an infinity *)
CellKinds == {"num", "nan", "inf"}
ColLen == 2
Columns == [1..ColLen -> CellKinds]

CleanColumn == [i \in 1..ColLen |-> "num"]

(* A frame handed to the Trainer: whether it has a Close column, its number
   of rows, and the kinds of cell of its feature matrix.  The feature matrix
   of a frame without Close or with too few rows is never looked at: one
   frame stands for each of these. *)
TrainFrames ==
    {[hasClose |-> FALSE, rows |-> rows, col |-> CleanColumn] : rows \in {79, 80}}
    \cup {[hasClose |-> TRUE, rows |-> 79, col |-> CleanColumn]}
    \cup [hasClose : {TRUE}, rows : {80}, col : Columns]

----------------------------------------------------------------------------
(* Model Store: key derivation *)

RECURSIVE ReplaceChar(_, _, _)
ReplaceChar(s, from, to) ==
    IF s = <<>> THEN <<>>
    ELSE (IF Head(s) = from THEN to ELSE <<Head(s)>>) \o ReplaceChar(Tail(s), from, to)

(* One file name for every symbol: the symbol left out of the path *)
safe_symbol_shared(symbol) == <<"m", "o", "d", "e", "l">>

safe_symbol(symbol) ==
    ReplaceChar(ReplaceChar(symbol, ".", <<"_">>), "&", <<"A", "N", "D">>)

Keys == {safe_symbol(s) : s \in Universe}

(* The file names load_pretrained_model may look for, and the names of the
   .keras files of the model directory: those and the ones IndianStockTrainer
   derives, which are the symbols themselves *)
RequestKeys == {safe_symbol(s) : s \in Requestable}
ModelNames == RequestKeys \cup IndianSymbols

Lower(m) == IF m = "Indian" THEN "indian" ELSE IF m = "US" THEN "us" ELSE m

SummaryNames == {Lower(m) : m \in Markets}

(* The aggregate files of the model directory *)
AggregateFiles == SummaryNames \cup {"report"}

----------------------------------------------------------------------------
(* Model Store: load *)

(* Only the model file is checked; what is missing is returned as it is *)
load_pretrained_model_model_only(symbol) ==
    LET k == safe_symbol(symbol) IN
    IF modelFile[k] = Absent \/ modelFile[k] = Corrupt
    THEN NoValue
    ELSE [model |-> modelFile[k], scalers |-> scalerFile[k], metadata |-> metaFile[k]]

load_pretrained_model(symbol) ==
    LET k == safe_symbol(symbol) IN
    IF modelFile[k] = Absent \/ scalerFile[k] = Absent \/ metaFile[k] = Absent
    THEN NoValue
    ELSE IF modelFile[k] = Corrupt \/ scalerFile[k] = Corrupt \/ metaFile[k] = Corrupt
    THEN NoValue
    ELSE [model |-> modelFile[k], scalers |-> scalerFile[k], metadata |-> metaFile[k]]

----------------------------------------------------------------------------
(* Trainer *)

(* np.isfinite on one cell *)
isfinite(x) == x \notin {"nan", "inf"}

(* np.where(np.isfinite(x), x, np.nan) *)
where_finite(col) == [i \in DOMAIN col |-> IF isfinite(col[i]) THEN col[i] ELSE "nan"]

RECURSIVE fill_from(_, _)
fill_from(col, prev) ==
    IF col = <<>> THEN <<>>
    ELSE LET h == IF Head(col) = "nan" THEN prev ELSE Head(col)
         IN  <<h>> \o fill_from(Tail(col), h)

Reverse(s) == [i \in 1..Len(s) |-> s[Len(s) + 1 - i]]

ffill(col) == fill_from(col, "nan")
bfill(col) == Reverse(fill_from(Reverse(col), "nan"))
fillna_zero(col) == [i \in DOMAIN col |-> IF col[i] = "nan" THEN "0" ELSE col[i]]

isfinite_all(col) == \A i \in DOMAIN col : isfinite(col[i])

(* The gaps are filled from the next value first *)
clean_features_backward(col) == fillna_zero(ffill(bfill(where_finite(col))))

(* feature_df.ffill().bfill().fillna(0) on the matrix with inf turned to NaN *)
clean_features(col) == fillna_zero(bfill(ffill(where_finite(col))))

(* prepare_stock_data: the number of samples (X, y) it returns with the
   scalers it fit and the feature matrix they were fit on, or why it returns
   None *)
prepare_stock_data(df) ==
    IF ~df.hasClose THEN [why |-> "no_close", samples |-> 0, scalers |-> 0]
    ELSE IF df.rows < LOOKBACK + MIN_EXTRA_ROWS
         THEN [why |-> "insufficient", samples |-> 0, scalers |-> 0]
    ELSE LET cleaned == IF isfinite_all(df.col) THEN df.col ELSE clean_features(df.col)
         IN  IF ~isfinite_all(cleaned) THEN [why |-> "nonfinite", samples |-> 0, scalers |-> 0]
             ELSE [why |-> "ok", samples |-> df.rows - LOOKBACK, scalers |-> 2,
                   feature_data |-> cleaned]

(* Python's range(a, b) and s[a:b] for 0 <= a, on sequences indexed from 1 *)
py_range(a, b) == [j \in 1..(IF b > a THEN b - a ELSE 0) |-> a + j - 1]
py_slice(s, a, b) ==
    LET hi == IF b < Len(s) THEN b ELSE Len(s)
    IN  [j \in 1..(IF hi > a THEN hi - a ELSE 0) |-> s[a + j]]

(* The window of sample i reaches one row further: it ends with the row of
   its own label *)
create_sequences_leaky(scaled, lookback) ==
    LET is == py_range(lookback, Len(scaled))
    IN  [j \in 1..Len(is) |->
            [X |-> py_slice(scaled, is[j] - lookback + 1, is[j] + 1), y |-> scaled[is[j] + 1]]]

(* The Sequence Builder: for i in range(lookback, len(scaled)):
   X.append(scaled[i-lookback:i]); y.append(scaled[i]) *)
create_sequences(scaled, lookback) ==
    LET is == py_range(lookback, Len(scaled))
    IN  [j \in 1..Len(is) |->
            [X |-> py_slice(scaled, is[j] - lookback, is[j]), y |-> scaled[is[j] + 1]]]

(* A frame of n rows, each row standing for its position (from 0) *)
Frame(n) == [i \in 1..n |-> i - 1]

split_idx(n) == (n * 8) \div 10

Metadata(symbol, run, n) ==
    [symbol |-> symbol, run |-> run,
     training_samples |-> split_idx(n), test_samples |-> n - split_idx(n),
     lookback |-> LOOKBACK, features |-> features]

(* The effect of a write that raises: open() failed and the file is as it
   was, or the file was opened and is left truncated *)
FailedWrite(old) == {old, Corrupt}
FailedSummaryWrite(old) == {old, CorruptSummary}

(* Why a call of train_single_stock ends: prepare_stock_data returned None,
   a statement of the try block raised, or the end of the block was reached *)
EarlyReturns == {"no_close", "insufficient", "nonfinite"}
Exceptions == {"fit", "evaluate", "save_model", "save_scaler", "save_metadata"}

(* `except Exception` of train_single_stock: the exceptions it catches *)
CaughtByTrainer == Exceptions

(* The metadata is returned although writing it failed *)
ReturnValue_leaky(cause, metadata) ==
    IF cause \in {"ok", "save_metadata"} THEN metadata ELSE NoValue

(* What train_single_stock returns: the metadata at the end of the try block,
   None from the early return and from the except clause *)
ReturnValue(cause, metadata) == IF cause = "ok" THEN metadata ELSE NoValue

(* The processes that may run the Trainer at the same time *)
Procs == {"p1", "p2"}

IdleWorker == [pc |-> "idle"]
IdlePipeline == [pc |-> "idle"]

(* The addresses requests come from, and the cache keys of their requests:
   method, path and query, of which the model varies the method *)
Clients == {"127.0.0.1", "203.0.113.7"}
Methods == {"GET", "POST"}
NoEntry == [cached |-> FALSE]

(* Both dicts of main.py are empty when the process starts *)
WebInit ==
    /\ now = 0
    /\ rate_limit_store = [c \in Clients |-> <<>>]
    /\ response_cache = [m \in Methods |-> NoEntry]
    /\ forwarded = [c \in Clients |-> [age \in 0..(RATE_LIMIT_WINDOW - 1) |-> 0]]

Init ==
    /\ modelFile = [k \in ModelNames |-> Absent]
    /\ scalerFile = [k \in RequestKeys |-> Absent]
    /\ metaFile = [k \in RequestKeys |-> Absent]
    /\ trained = [r \in 1..MaxRuns |-> NoValue]
    /\ nseScalerFile = [k \in IndianSymbols |-> Absent]
    /\ nseMetaFile = [k \in IndianSymbols |-> Absent]
    /\ workers = [p \in Procs |-> IdleWorker]
    /\ pipe = IdlePipeline
    /\ WebInit
    /\ summaryFile = [m \in AggregateFiles |-> NoSummary]
    /\ nextRun = 1
    /\ bulkPc = "idle"
    /\ market = "US"
    /\ stock_data = <<>>
    /\ queue = <<>>
    /\ successful = <<>>
    /\ failed = <<>>
    /\ attempted = {}
    /\ cur = NoValue
    /\ trainResult = NoValue
    /\ returned = NoValue
    /\ last = NoValue

----------------------------------------------------------------------------
(* Bulk Pipeline: train_all_stocks, with train_single_stock inlined *)

RECURSIVE Perms(_)
Perms(S) ==
    IF S = {} THEN {<<>>}
    ELSE UNION {{<<x>> \o p : p \in Perms(S \ {x})} : x \in S}

(* The iteration orders of the dicts stock_data over the universe *)
Orders == UNION {Perms(S) : S \in SUBSET Universe}

(* The loop is left after the first symbol *)
AfterSymbol_abort(q) == "summary"

(* The for loop goes on with the next symbol, or ends *)
AfterSymbol(q) == IF q = <<>> THEN "summary" ELSE "loop"

TrainFaults == {"none", "fit", "evaluate"}

(* train_all_stocks is called with a dict and a market name *)
BulkStart(m, order) ==
    /\ bulkPc = "idle"
    /\ last = NoValue
    /\ nextRun + Len(order) - 1 <= MaxRuns
    /\ bulkPc' = AfterSymbol(order)
    /\ market' = m
    /\ stock_data' = order
    /\ queue' = order
    /\ UNCHANGED <<storeVars, summaryFile, nextRun, trained, successful, failed, attempted,
                   cur, trainResult, returned, last,
                   sideVars>>

(* train_single_stock returns to the loop of train_all_stocks, which appends
   the metadata to `successful` or the symbol to `failed`; an exception it
   does not catch leaves train_all_stocks, which has no handler *)
Return(symbol, cause, metadata, rest) ==
    LET value == ReturnValue(cause, metadata)
        raised == cause \in Exceptions \ CaughtByTrainer
    IN
    /\ trainResult' = [symbol |-> symbol, cause |-> cause, value |-> value,
                       raised |-> raised]
    /\ cur' = NoValue
    /\ IF raised
       THEN /\ bulkPc' = "raised"
            /\ UNCHANGED <<successful, failed>>
       ELSE /\ bulkPc' = AfterSymbol(rest)
            /\ IF value = NoValue
               THEN failed' = Append(failed, symbol) /\ successful' = successful
               ELSE successful' = Append(successful, value) /\ failed' = failed

(* train_single_stock up to the first write: prepare, split, fit, evaluate *)
TrainBegin(df, fault) ==
    /\ bulkPc = "loop"
    /\ queue # <<>>
    /\ LET symbol == Head(queue)
           prepared == prepare_stock_data(df)
       IN  /\ attempted' = attempted \cup {symbol}
           /\ queue' = Tail(queue)
           /\ nextRun' = nextRun + 1
           /\ IF prepared.why # "ok"
              THEN /\ Return(symbol, prepared.why, NoValue, Tail(queue))
                   /\ trained' = trained
              ELSE IF fault # "none"
              THEN /\ Return(symbol, fault, NoValue, Tail(queue))
                   /\ trained' = trained
              ELSE /\ cur' = Metadata(symbol, nextRun, prepared.samples)
                   /\ trained' = trained
                   /\ bulkPc' = "saveModel"
                   /\ trainResult' = NoValue
                   /\ UNCHANGED <<successful, failed>>
    /\ UNCHANGED <<storeVars, summaryFile, market, stock_data, returned, last,
                   sideVars>>

(* model.save(model_path) *)
SaveModel(ok) ==
    /\ bulkPc = "saveModel"
    /\ LET k == safe_symbol(cur.symbol) IN
       IF ok
       THEN /\ modelFile' = [modelFile EXCEPT ![k] = cur.run]
            /\ trained' = [trained EXCEPT ![cur.run] = cur]
            /\ bulkPc' = "saveScaler"
            /\ UNCHANGED <<successful, failed, cur, trainResult>>
       ELSE /\ \E c \in FailedWrite(modelFile[k]) : modelFile' = [modelFile EXCEPT ![k] = c]
            /\ trained' = trained
            /\ Return(cur.symbol, "save_model", cur, queue)
    /\ UNCHANGED <<scalerFile, metaFile, summaryFile, nextRun, market, stock_data, queue,
                   attempted, returned, last,
                   sideVars>>

(* pickle.dump of the two scalers to scaler_path *)
SaveScaler(ok) ==
    /\ bulkPc = "saveScaler"
    /\ LET k == safe_symbol(cur.symbol) IN
       IF ok
       THEN /\ scalerFile' = [scalerFile EXCEPT ![k] = cur.run]
            /\ bulkPc' = "saveMeta"
            /\ UNCHANGED <<successful, failed, cur, trainResult>>
       ELSE /\ \E c \in FailedWrite(scalerFile[k]) : scalerFile' = [scalerFile EXCEPT ![k] = c]
            /\ Return(cur.symbol, "save_scaler", cur, queue)
    /\ UNCHANGED <<modelFile, metaFile, summaryFile, nextRun, trained, market, stock_data, queue,
                   attempted, returned, last,
                   sideVars>>

(* json.dump(metadata) to metadata_path, then return metadata *)
SaveMeta(ok) ==
    /\ bulkPc = "saveMeta"
    /\ LET k == safe_symbol(cur.symbol) IN
       IF ok
       THEN /\ metaFile' = [metaFile EXCEPT ![k] = cur.run]
            /\ Return(cur.symbol, "ok", cur, queue)
       ELSE /\ \E c \in FailedWrite(metaFile[k]) : metaFile' = [metaFile EXCEPT ![k] = c]
            /\ Return(cur.symbol, "save_metadata", cur, queue)
    /\ UNCHANGED <<modelFile, scalerFile, summaryFile, nextRun, trained, market, stock_data, queue,
                   attempted, returned, last,
                   sideVars>>

Summary ==
    [market |-> market, total_stocks |-> Len(stock_data),
     successful |-> Len(successful), failed |-> Len(failed),
     failed_symbols |-> failed, models |-> successful]

(* The summary is written and returned; a failing write raises out of
   train_all_stocks *)
WriteSummary(ok) ==
    /\ bulkPc = "summary"
    /\ IF ok
       THEN /\ summaryFile' = [summaryFile EXCEPT ![Lower(market)] = Summary]
            /\ returned' = Summary
            /\ bulkPc' = "done"
       ELSE /\ \E c \in FailedSummaryWrite(summaryFile[Lower(market)]) :
                  summaryFile' = [summaryFile EXCEPT ![Lower(market)] = c]
            /\ returned' = NoValue
            /\ bulkPc' = "raised"
    /\ UNCHANGED <<storeVars, nextRun, trained, market, stock_data, queue, successful, failed,
                   attempted, cur, trainResult, last,
                   sideVars>>

(* The process running train_all_stocks is interrupted or killed *)
Interrupt ==
    /\ bulkPc \in {"loop", "saveModel", "saveScaler", "saveMeta", "summary"}
    /\ bulkPc' = "interrupted"
    /\ UNCHANGED <<storeVars, summaryFile, nextRun, trained, market, stock_data, queue, successful,
                   failed, attempted, cur, trainResult, returned, last,
                   sideVars>>

(* The run is over (returned, raised or interrupted): its local state goes *)
BulkExit ==
    /\ bulkPc \in {"done", "raised", "interrupted"}
    /\ bulkPc' = "idle"
    /\ market' = "US"
    /\ stock_data' = <<>>
    /\ queue' = <<>>
    /\ successful' = <<>>
    /\ failed' = <<>>
    /\ attempted' = {}
    /\ cur' = NoValue
    /\ trainResult' = NoValue
    /\ returned' = NoValue
    /\ UNCHANGED <<storeVars, summaryFile, nextRun, trained, last,
                   sideVars>>

----------------------------------------------------------------------------
(* The Trainer run by several processes at once: each process is one call of
   train_single_stock, and its three writes interleave with the steps of the
   others *)

(* Every scaler bundle goes to one file *)
scaler_path_shared(symbol) == safe_symbol(SymT)

(* The three paths of train_single_stock, by the key in their file name *)
model_path(symbol) == safe_symbol(symbol)
scaler_path(symbol) == safe_symbol(symbol)
metadata_path(symbol) == safe_symbol(symbol)

Ended(p, cause) == [workers EXCEPT ![p] = [@ EXCEPT !.pc = "done", !.cause = cause]]

(* train_single_stock up to the first write, in process p *)
WorkerBegin(p, symbol, df, fault) ==
    /\ workers[p].pc = "idle"
    /\ bulkPc = "idle"
    /\ nextRun <= MaxRuns
    /\ nextRun' = nextRun + 1
    /\ LET prepared == prepare_stock_data(df)
           call == [pc |-> "saveModel", symbol |-> symbol, run |-> nextRun, cause |-> "none",
                    samples |-> prepared.samples]
       IN  IF prepared.why # "ok"
           THEN /\ workers' = [workers EXCEPT ![p] =
                                  [call EXCEPT !.pc = "done", !.cause = prepared.why]]
           ELSE IF fault # "none"
           THEN workers' = [workers EXCEPT ![p] =
                               [call EXCEPT !.pc = "done", !.cause = fault]]
           ELSE workers' = [workers EXCEPT ![p] = call]
    /\ UNCHANGED <<storeVars, summaryFile, trained, bulkVars, last, nseScalerFile,
                   nseMetaFile, pipe, webVars>>

(* model.save(model_path) in process p *)
WorkerSaveModel(p, ok) ==
    /\ workers[p].pc = "saveModel"
    /\ LET k == model_path(workers[p].symbol) IN
       IF ok
       THEN /\ modelFile' = [modelFile EXCEPT ![k] = workers[p].run]
            /\ trained' = [trained EXCEPT ![workers[p].run] =
                               Metadata(workers[p].symbol, workers[p].run,
                                        workers[p].samples)]
            /\ workers' = [workers EXCEPT ![p].pc = "saveScaler"]
       ELSE /\ \E c \in FailedWrite(modelFile[k]) : modelFile' = [modelFile EXCEPT ![k] = c]
            /\ trained' = trained
            /\ workers' = Ended(p, "save_model")
    /\ UNCHANGED <<scalerFile, metaFile, summaryFile, nextRun, bulkVars, last,
                   nseScalerFile, nseMetaFile, pipe, webVars>>

(* pickle.dump of the scalers in process p *)
WorkerSaveScaler(p, ok) ==
    /\ workers[p].pc = "saveScaler"
    /\ LET k == scaler_path(workers[p].symbol) IN
       IF ok
       THEN /\ scalerFile' = [scalerFile EXCEPT ![k] = workers[p].run]
            /\ workers' = [workers EXCEPT ![p].pc = "saveMeta"]
       ELSE /\ \E c \in FailedWrite(scalerFile[k]) : scalerFile' = [scalerFile EXCEPT ![k] = c]
            /\ workers' = Ended(p, "save_scaler")
    /\ UNCHANGED <<modelFile, metaFile, summaryFile, nextRun, trained, bulkVars, last,
                   nseScalerFile, nseMetaFile, pipe, webVars>>

(* json.dump of the metadata in process p, and the return *)
WorkerSaveMeta(p, ok) ==
    /\ workers[p].pc = "saveMeta"
    /\ LET k == metadata_path(workers[p].symbol) IN
       IF ok
       THEN /\ metaFile' = [metaFile EXCEPT ![k] = workers[p].run]
            /\ workers' = Ended(p, "ok")
       ELSE /\ \E c \in FailedWrite(metaFile[k]) : metaFile' = [metaFile EXCEPT ![k] = c]
            /\ workers' = Ended(p, "save_metadata")
    /\ UNCHANGED <<modelFile, scalerFile, summaryFile, nextRun, trained, bulkVars, last,
                   nseScalerFile, nseMetaFile, pipe, webVars>>

(* The calls under way have all returned: the processes are free again *)
WorkersJoin ==
    /\ \A p \in Procs : workers[p].pc \in {"idle", "done"}
    /\ \E p \in Procs : workers[p].pc = "done"
    /\ workers' = [p \in Procs |-> IdleWorker]
    /\ UNCHANGED <<storeVars, summaryFile, nextRun, trained, bulkVars, last,
                   nseScalerFile, nseMetaFile, pipe, webVars>>

----------------------------------------------------------------------------
(* IndianStockTrainer (train_indian_models.py), which shares the directory
   models/pretrained with the Model Store *)

IndianFaults == {"none", "fit", "save_model", "save_scaler", "save_metadata"}
IndianRows == {MIN_DATA_POINTS - 1, MIN_DATA_POINTS}

(* The metadata dict of train_stock *)
IndianMetadata(symbol, run, rows) ==
    [symbol |-> symbol, run |-> run, market |-> "NSE", data_points |-> rows,
     training_samples |-> split_idx(rows - SEQUENCE_LENGTH),
     test_samples |-> (rows - SEQUENCE_LENGTH) - split_idx(rows - SEQUENCE_LENGTH),
     sequence_length |-> SEQUENCE_LENGTH]

(* The name of the model file of train_stock: the symbol as it is *)
indian_model_file(symbol) == symbol

(* train_stock: too few rows or sequences and a failing fit return None
   before anything is written; then <symbol>.keras, <symbol>_scaler.pkl and
   <symbol>_metadata.pkl are written in this order, and an exception ends the
   call where it is raised *)
IndianTrainStock(symbol, rows, fault) ==
    /\ bulkPc = "idle"
    /\ last = NoValue
    /\ nextRun <= MaxRuns
    /\ nextRun' = nextRun + 1
    /\ LET k == indian_model_file(symbol)
           run == nextRun
       IN  IF \/ rows < MIN_DATA_POINTS
              \/ rows - SEQUENCE_LENGTH < MIN_SEQUENCES
              \/ fault = "fit"
           THEN UNCHANGED <<modelFile, nseScalerFile, nseMetaFile, trained>>
           ELSE IF fault = "save_model"
                THEN /\ \E c \in FailedWrite(modelFile[k]) :
                           modelFile' = [modelFile EXCEPT ![k] = c]
                     /\ UNCHANGED <<nseScalerFile, nseMetaFile, trained>>
                ELSE /\ trained' = [trained EXCEPT ![run] = IndianMetadata(symbol, run, rows)]
                     /\ modelFile' = [modelFile EXCEPT ![k] = run]
                     /\ IF fault = "save_scaler"
                        THEN /\ \E c \in FailedWrite(nseScalerFile[symbol]) :
                                   nseScalerFile' = [nseScalerFile EXCEPT ![symbol] = c]
                             /\ UNCHANGED nseMetaFile
                        ELSE /\ nseScalerFile' = [nseScalerFile EXCEPT ![symbol] = run]
                             /\ IF fault = "save_metadata"
                                THEN \E c \in FailedWrite(nseMetaFile[symbol]) :
                                       nseMetaFile' = [nseMetaFile EXCEPT ![symbol] = c]
                                ELSE nseMetaFile' = [nseMetaFile EXCEPT ![symbol] = run]
    /\ UNCHANGED <<scalerFile, metaFile, summaryFile, bulkVars, last, workers, pipe, webVars>>

----------------------------------------------------------------------------
(* run_full_training_pipeline behind POST /api/ai/train-models: the Indian
   stage, then the US stage, each a run of train_all_stocks, then the report *)

(* The local state of a train_all_stocks call that has not started *)
BulkReset ==
    /\ bulkPc' = "idle"
    /\ market' = "US"
    /\ stock_data' = <<>>
    /\ queue' = <<>>
    /\ successful' = <<>>
    /\ failed' = <<>>
    /\ attempted' = {}
    /\ cur' = NoValue
    /\ trainResult' = NoValue
    /\ returned' = NoValue

(* trainer.train_all_stocks(data, m) is entered *)
BulkCall(m, order) ==
    /\ bulkPc' = AfterSymbol(order)
    /\ market' = m
    /\ stock_data' = order
    /\ queue' = order
    /\ successful' = <<>>
    /\ failed' = <<>>
    /\ attempted' = {}
    /\ cur' = NoValue
    /\ trainResult' = NoValue
    /\ returned' = NoValue

NewReport(n) ==
    [success |-> TRUE, error |-> "", indian_downloaded |-> n, indian_summary |-> NoValue,
     us_downloaded |-> 0, us_summary |-> NoValue, total_models |-> 0]

(* except Exception: report['success'] = False, report['error'] = str(e) *)
FailedReport(report) == [report EXCEPT !.success = FALSE, !.error = "exception"]

(* The response of train_models to the report of the pipeline: the report
   itself, or an HTTP 500 that carries only report['error'] *)
train_models_response(report) ==
    IF report.success
    THEN [status |-> 200, detail |-> "", body |-> report]
    ELSE [status |-> 500, detail |-> report.error, body |-> NoValue]

(* POST /api/ai/train-models: a period or epochs out of range is refused;
   otherwise the pipeline downloads the Indian stocks and enters
   train_all_stocks for them *)
PipelineStart(valid, order) ==
    /\ pipe.pc = "idle"
    /\ bulkPc = "idle"
    /\ last = NoValue
    /\ IF ~valid
       THEN /\ last' = [endpoint |-> "train-models", indian_summary |-> NoValue,
                        status |-> 400, detail |-> "invalid", body |-> NoValue]
            /\ UNCHANGED <<pipe, bulkVars>>
       ELSE /\ nextRun + Len(order) - 1 <= MaxRuns
            /\ pipe' = [pc |-> "indian", report |-> NewReport(Len(order))]
            /\ BulkCall("Indian", order)
            /\ last' = last
    /\ UNCHANGED <<storeVars, summaryFile, nextRun, trained, nseScalerFile, nseMetaFile,
                   workers, webVars>>

(* The Indian stage is over: its summary goes into the report and the US
   stage begins, or its exception ends the pipeline *)
PipelineUS(order) ==
    /\ pipe.pc = "indian"
    /\ bulkPc \in {"done", "raised"}
    /\ IF bulkPc = "raised"
       THEN /\ pipe' = [pc |-> "return", report |-> FailedReport(pipe.report)]
            /\ BulkReset
       ELSE /\ nextRun + Len(order) - 1 <= MaxRuns
            /\ pipe' = [pc |-> "us",
                        report |-> [pipe.report EXCEPT !.indian_summary = returned,
                                                       !.us_downloaded = Len(order)]]
            /\ BulkCall("US", order)
    /\ UNCHANGED <<storeVars, summaryFile, nextRun, trained, last, nseScalerFile,
                   nseMetaFile, workers, webVars>>

(* The US stage is over: the totals are computed and the report is written
   and returned, or an exception (of the stage, or of the write) makes the
   report a failure *)
PipelineFinish(saved) ==
    /\ pipe.pc = "us"
    /\ bulkPc \in {"done", "raised"}
    /\ BulkReset
    /\ IF bulkPc = "raised"
       THEN /\ pipe' = [pc |-> "return", report |-> FailedReport(pipe.report)]
            /\ UNCHANGED summaryFile
       ELSE LET report == [pipe.report EXCEPT
                              !.us_summary = returned,
                              !.total_models = pipe.report.indian_summary.successful
                                               + returned.successful]
            IN  IF saved
                THEN /\ pipe' = [pc |-> "return", report |-> report]
                     /\ summaryFile' = [summaryFile EXCEPT !["report"] = report]
                ELSE /\ pipe' = [pc |-> "return", report |-> FailedReport(report)]
                     /\ \E c \in FailedSummaryWrite(summaryFile["report"]) :
                           summaryFile' = [summaryFile EXCEPT !["report"] = c]
    /\ UNCHANGED <<storeVars, nextRun, trained, last, nseScalerFile, nseMetaFile, workers, webVars>>

(* train_models answers its caller *)
TrainModelsReturn ==
    /\ pipe.pc = "return"
    /\ last = NoValue
    /\ last' = [endpoint |-> "train-models", indian_summary |-> pipe.report.indian_summary]
                @@ train_models_response(pipe.report)
    /\ pipe' = IdlePipeline
    /\ UNCHANGED <<storeVars, summaryFile, nextRun, trained, bulkVars, nseScalerFile,
                   nseMetaFile, workers, webVars>>

(* get_training_status: None when a summary file that exists cannot be read,
   else the two summaries (None for a file that is not there) and the sum of
   their `successful` *)
get_training_status ==
    IF summaryFile["indian"] = CorruptSummary \/ summaryFile["us"] = CorruptSummary
    THEN NoValue
    ELSE [indian_stocks |-> IF summaryFile["indian"] = NoSummary THEN NoValue
                            ELSE summaryFile["indian"],
          us_stocks |-> IF summaryFile["us"] = NoSummary THEN NoValue
                        ELSE summaryFile["us"],
          total_models |-> (IF summaryFile["indian"] = NoSummary THEN 0
                            ELSE summaryFile["indian"].successful)
                           + (IF summaryFile["us"] = NoSummary THEN 0
                              ELSE summaryFile["us"].successful)]

(* GET /api/ai/training-status, while no run is writing *)
TrainingStatus ==
    /\ bulkPc \in {"idle", "done"}
    /\ last = NoValue
    /\ last' = [endpoint |-> "training-status", status |-> get_training_status]
    /\ UNCHANGED <<storeVars, summaryFile, nextRun, trained, bulkVars, sideVars>>

----------------------------------------------------------------------------
(* The Sequence Builder on its own, on a frame of n rows with a lookback *)
BuildSequences(n, lookback) ==
    /\ bulkPc = "idle"
    /\ last = NoValue
    /\ last' = [rows |-> n, lookback |-> lookback,
                samples |-> create_sequences(Frame(n), lookback)]
    /\ UNCHANGED <<storeVars, summaryFile, nextRun, trained, bulkVars, sideVars>>

----------------------------------------------------------------------------
(* Inference Path *)

(* Rows left when the rolling indicators are computed again and the rows
   with an undefined value are dropped *)
rows_after_indicators(rows) == IF rows >= MA_WINDOW THEN rows - (MA_WINDOW - 1) ELSE 0

(* The recursive forecast loop followed by the inverse transform: the number
   of model.predict calls made and whether the predictions come out.  The
   inverse transform of an empty list raises. *)
forecast(days, predictRaises) ==
    IF days < 1 THEN [calls |-> 0, ok |-> FALSE]
    ELSE IF predictRaises THEN [calls |-> 1, ok |-> FALSE]
    ELSE [calls |-> days, ok |-> TRUE]

FailureKeys == {"success", "error"}

PretrainedKeys ==
    {"success", "symbol", "predictions", "future_dates", "historical_prices",
     "historical_dates", "current_price", "predicted_price", "price_change_percent",
     "model_metadata", "using_pretrained"}

FallbackKeys == {"success", "symbol", "historical", "predictions", "metrics"}

(* No handler around the path: what goes wrong leaves the function *)
Failure_raised(event, fetches, fits, calls) ==
    [success |-> FALSE, keys |-> {}, predictions |-> "none", n |-> 0,
     using_pretrained |-> "absent", raised |-> TRUE, event |-> event,
     fetches |-> fetches, fits |-> fits, calls |-> calls]

(* return {'success': False, 'error': ...}; `event` is what went wrong *)
Failure(event, fetches, fits, calls) ==
    [success |-> FALSE, keys |-> FailureKeys, predictions |-> "none", n |-> 0,
     using_pretrained |-> "absent", raised |-> FALSE, event |-> event,
     fetches |-> fetches, fits |-> fits, calls |-> calls]

(* How a path scales: the scalers it fits, the scaler that transforms the
   input window and the scaler that inverse-transforms the predictions, each
   with the run whose scaler file it comes from (Absent: fit by the path) *)
NoWindow == [window |-> NoValue]
NoScaling == [scaler_fits |-> 0, transform_with |-> NoValue, inverse_with |-> NoValue]

(* LSTMPredictor: the features and lookback of prepare_data and
   predict_future, and its two scalers, which prepare_data fits *)
predictor_window == [window |-> [features |-> features, lookback |-> LOOKBACK]]

predictor_scaling(transformed, inverted) ==
    [scaler_fits |-> 2,
     transform_with |-> IF transformed THEN [scaler |-> "scaler", run |-> Absent]
                        ELSE NoValue,
     inverse_with |-> IF inverted THEN [scaler |-> "target_scaler", run |-> Absent]
                      ELSE NoValue]

(* The index of a fetched frame of `rows` rows: one timestamp a day, the
   days numbered from 1; a timestamp has a day and a time of day *)
Timestamp(day) == [day |-> day, time |-> "00:00:00"]
index(rows) == [i \in 1..rows |-> Timestamp(i)]

(* ts + timedelta(days=n), ts + pd.Timedelta(days=n) *)
plus_days(ts, n) == [ts EXCEPT !.day = @ + n]

(* strftime('%Y-%m-%d'): the day without the time of day *)
strftime(ts) == ts.day

(* The range starts on the start day's eve *)
date_range_early(start, periods) == [i \in 1..periods |-> plus_days(start, i - 2)]

(* pd.date_range(start=start, periods=periods): one timestamp a day *)
date_range(start, periods) == [i \in 1..periods |-> plus_days(start, i - 1)]

(* future_dates of the pretrained path: the days after the last row of the
   frame, which dropna leaves in place *)
pretrained_dates(data, future_days) ==
    LET last_date == index(data)[data]
        future_dates == date_range(plus_days(last_date, 1), future_days)
    IN  [future_dates |-> [i \in DOMAIN future_dates |-> strftime(future_dates[i])],
         last_historical |-> strftime(last_date)]

(* predictions.dates of run_lstm_prediction:
   [(last_date + timedelta(days=i+1)).strftime(...) for i in range(future_days)] *)
fallback_dates(data, future_days) ==
    LET last_date == index(data)[data]
        is == py_range(0, future_days)
    IN  [future_dates |-> [j \in DOMAIN is |-> strftime(plus_days(last_date, is[j] + 1))],
         last_historical |-> strftime(last_date)]

(* run_lstm_prediction *)
run_lstm_prediction(data, num_simulations, future_days, fitRaises, predictRaises) ==
    IF data = NoFrame \/ data = 0 THEN Failure("no_data", 1, 0, 0) @@ NoWindow @@ NoScaling
    ELSE IF num_simulations < 1
         THEN Failure("no_simulation", 1, 0, 0) @@ NoWindow @@ NoScaling
    ELSE IF rows_after_indicators(data) < LOOKBACK + MIN_EXTRA_ROWS
         THEN Failure("too_few_rows", 1, 0, 0) @@ NoWindow @@ NoScaling
    ELSE IF fitRaises
         THEN Failure("training_exception", 1, 1, 0) @@ predictor_window
                  @@ predictor_scaling(FALSE, FALSE)
    ELSE LET f == forecast(future_days, predictRaises) IN
         IF ~f.ok THEN Failure("prediction_exception", 1, 1, f.calls) @@ predictor_window
                           @@ predictor_scaling(TRUE, future_days < 1 \/ ~predictRaises)
         ELSE [success |-> TRUE, keys |-> FallbackKeys, predictions |-> "dict",
               n |-> future_days, using_pretrained |-> "absent", raised |-> FALSE,
               event |-> "none", fetches |-> 1, fits |-> 1, calls |-> f.calls]
              @@ predictor_window @@ predictor_scaling(TRUE, TRUE)
              @@ fallback_dates(data, future_days)

(* The feature list of the pretrained path *)
pretrained_features == <<"Close", "Volume", "MA5", "MA10", "MA20", "Price_Change",
                         "Price_Range", "Volume_Change", "RSI">>

(* The window is cut as long as IndianStockTrainer's sequences *)
pretrained_window_long ==
    [window |-> [features |-> pretrained_features, lookback |-> SEQUENCE_LENGTH]]

(* The input window of the pretrained path: the last 30 rows of its own
   feature list, reshaped to (1, 30, len(features)) *)
pretrained_window ==
    [window |-> [features |-> pretrained_features, lookback |-> PRETRAINED_WINDOW]]

(* The predictions go back through the scaler that transformed the window *)
pretrained_scaling_one_scaler(pretrained, inverted) ==
    [scaler_fits |-> 0,
     transform_with |-> [scaler |-> "feature_scaler", run |-> pretrained.scalers],
     inverse_with |-> IF inverted
                      THEN [scaler |-> "feature_scaler", run |-> pretrained.scalers]
                      ELSE NoValue]

(* The scalers of the pretrained path: feature_scaler.transform on the window,
   target_scaler.inverse_transform on the predictions, both unpacked from the
   loaded tuple; nothing is fit *)
pretrained_scaling(pretrained, inverted) ==
    [scaler_fits |-> 0,
     transform_with |-> [scaler |-> "feature_scaler", run |-> pretrained.scalers],
     inverse_with |-> IF inverted
                      THEN [scaler |-> "target_scaler", run |-> pretrained.scalers]
                      ELSE NoValue]

(* The loaded artifact is ignored: every request takes the fallback *)
run_lstm_prediction_pretrained_retrain(pretrained, data, future_days, fitRaises, predictRaises) ==
    run_lstm_prediction(data, FALLBACK_SIMULATIONS, future_days, fitRaises, predictRaises)

(* run_lstm_prediction_pretrained, given what load_pretrained_model returned *)
run_lstm_prediction_pretrained(pretrained, data, future_days, fitRaises, predictRaises) ==
    IF pretrained # NoValue
    THEN IF data = NoFrame \/ data = 0
         THEN Failure("no_data", 1, 0, 0) @@ NoWindow @@ NoScaling
         ELSE IF rows_after_indicators(data) < PRETRAINED_WINDOW
              THEN Failure("too_few_rows", 1, 0, 0) @@ NoWindow @@ NoScaling
         ELSE LET f == forecast(future_days, predictRaises) IN
              IF ~f.ok THEN Failure("prediction_exception", 1, 0, f.calls)
                                @@ pretrained_window
                                @@ pretrained_scaling(pretrained, future_days < 1 \/ ~predictRaises)
              ELSE [success |-> TRUE, keys |-> PretrainedKeys, predictions |-> "list",
                    n |-> future_days, using_pretrained |-> "true", raised |-> FALSE,
                    event |-> "none", fetches |-> 1, fits |-> 0, calls |-> f.calls]
                   @@ pretrained_window @@ pretrained_scaling(pretrained, TRUE)
                   @@ pretrained_dates(data, future_days)
    ELSE run_lstm_prediction(data, FALLBACK_SIMULATIONS, future_days, fitRaises, predictRaises)

(* The fallback saves what it trained under the key of the symbol *)
store_after_request_saving(symbol, pretrained) ==
    LET k == safe_symbol(symbol)
        run == IF nextRun <= MaxRuns THEN nextRun ELSE MaxRuns
    IN  IF pretrained # NoValue
        THEN [model |-> modelFile, scalers |-> scalerFile, metadata |-> metaFile]
        ELSE [model |-> [modelFile EXCEPT ![k] = run],
              scalers |-> [scalerFile EXCEPT ![k] = run],
              metadata |-> [metaFile EXCEPT ![k] = run]]

(* The files of the store after a request: run_lstm_prediction_pretrained
   and run_lstm_prediction write no file, with or without an artifact *)
store_after_request(symbol, pretrained) ==
    [model |-> modelFile, scalers |-> scalerFile, metadata |-> metaFile]

(* A request reaches the Inference Path while no bulk run is writing; the
   path is synchronous, one request at a time *)
Predict(symbol, future_days, data, fitRaises, predictRaises) ==
    /\ bulkPc = "idle"
    /\ last = NoValue
    /\ LET pretrained == load_pretrained_model(symbol)
           store == store_after_request(symbol, pretrained)
       IN  /\ last' = [symbol |-> symbol, future_days |-> future_days, data |-> data,
                       pretrained |-> pretrained,
                       result |-> run_lstm_prediction_pretrained(pretrained, data,
                                      future_days, fitRaises, predictRaises)]
           /\ modelFile' = store.model
           /\ scalerFile' = store.scalers
           /\ metaFile' = store.metadata
    /\ UNCHANGED <<summaryFile, nextRun, trained, bulkVars, sideVars>>

(* load_pretrained_model is called on its own (final_validation.py) *)
Load(symbol) ==
    /\ bulkPc = "idle"
    /\ last = NoValue
    /\ last' = [symbol |-> symbol, pretrained |-> load_pretrained_model(symbol)]
    /\ UNCHANGED <<storeVars, summaryFile, nextRun, trained, bulkVars,
                   sideVars>>

(* The result goes to the caller; the Inference Path keeps nothing of it *)
Respond ==
    /\ last # NoValue
    /\ last' = NoValue
    /\ UNCHANGED <<storeVars, summaryFile, nextRun, trained, bulkVars,
                   sideVars>>

----------------------------------------------------------------------------
TrainingNext ==
    \/ \E df \in TrainFrames, fault \in TrainFaults : TrainBegin(df, fault)
    \/ \E ok \in BOOLEAN : SaveModel(ok)
    \/ \E ok \in BOOLEAN : SaveScaler(ok)
    \/ \E ok \in BOOLEAN : SaveMeta(ok)
    \/ \E ok \in BOOLEAN : WriteSummary(ok)
    \/ Interrupt
    \/ BulkExit

(* Bulk runs over any dict of the universe, for any market *)
Next ==
    \/ \E m \in Markets, order \in Orders : BulkStart(m, order)
    \/ TrainingNext

Spec == Init /\ [][Next]_vars

(* Trainings of one symbol at a time (a dict of one entry, US market), and
   prediction requests between them for the symbols of the lists *)
NextInference ==
    \/ \E symbol \in Universe : BulkStart("US", <<symbol>>)
    \/ TrainingNext
    \/ \E symbol \in Universe, d \in FutureDaysChoices, data \in FetchChoices,
          fitRaises \in BOOLEAN, predictRaises \in BOOLEAN :
            Predict(symbol, d, data, fitRaises, predictRaises)
    \/ Respond

SpecInference == Init /\ [][NextInference]_vars

(* The same, with requests for a symbol that is in no list as well: the
   endpoint takes what the query resolves to, or the query in upper case *)
InferenceSymbols == Universe \cup {SymMANDM}

NextRequests ==
    \/ \E symbol \in Universe : BulkStart("US", <<symbol>>)
    \/ TrainingNext
    \/ \E symbol \in InferenceSymbols, d \in FutureDaysChoices, data \in FetchChoices,
          fitRaises \in BOOLEAN, predictRaises \in BOOLEAN :
            Predict(symbol, d, data, fitRaises, predictRaises)
    \/ Respond

SpecRequests == Init /\ [][NextRequests]_vars

(* The model directory as the program may find it: any of the files of a key
   may be there, intact or not; the store is only read *)
FileContents == {Absent, Corrupt} \cup (1..MaxRuns)

InitStore ==
    /\ \E f \in [Keys -> FileContents] :
          modelFile = [k \in ModelNames |-> IF k \in Keys THEN f[k] ELSE Absent]
    /\ \E f \in [Keys -> FileContents] :
          scalerFile = [k \in RequestKeys |-> IF k \in Keys THEN f[k] ELSE Absent]
    /\ \E f \in [Keys -> FileContents] :
          metaFile = [k \in RequestKeys |-> IF k \in Keys THEN f[k] ELSE Absent]
    /\ \E owner \in [1..MaxRuns -> Universe] :
          trained = [r \in 1..MaxRuns |-> Metadata(owner[r], r, MIN_EXTRA_ROWS)]
    /\ nseScalerFile = [k \in IndianSymbols |-> Absent]
    /\ nseMetaFile = [k \in IndianSymbols |-> Absent]
    /\ workers = [p \in Procs |-> IdleWorker]
    /\ pipe = IdlePipeline
    /\ WebInit
    /\ summaryFile = [m \in AggregateFiles |-> NoSummary]
    /\ nextRun = 1
    /\ bulkPc = "idle"
    /\ market = "US"
    /\ stock_data = <<>>
    /\ queue = <<>>
    /\ successful = <<>>
    /\ failed = <<>>
    /\ attempted = {}
    /\ cur = NoValue
    /\ trainResult = NoValue
    /\ returned = NoValue
    /\ last = NoValue

NextStore ==
    \/ \E symbol \in Universe : Load(symbol)
    \/ Respond

SpecStore == InitStore /\ [][NextStore]_vars

(* Processes train symbols of the lists at the same time, the same symbol
   or different ones, and load_pretrained_model is called at any moment *)
NextConcurrent ==
    \/ \E p \in Procs, symbol \in Universe, df \in TrainFrames, fault \in TrainFaults :
          WorkerBegin(p, symbol, df, fault)
    \/ \E p \in Procs, ok \in BOOLEAN : WorkerSaveModel(p, ok)
    \/ \E p \in Procs, ok \in BOOLEAN : WorkerSaveScaler(p, ok)
    \/ \E p \in Procs, ok \in BOOLEAN : WorkerSaveMeta(p, ok)
    \/ WorkersJoin
    \/ \E symbol \in Universe : Load(symbol)
    \/ Respond

SpecConcurrent == Init /\ [][NextConcurrent]_vars

(* The training endpoint: the pipeline over dicts of the universe *)
NextPipeline ==
    \/ \E valid \in BOOLEAN, order \in Orders : PipelineStart(valid, order)
    \/ \E df \in TrainFrames, fault \in TrainFaults : TrainBegin(df, fault)
    \/ \E ok \in BOOLEAN : SaveModel(ok)
    \/ \E ok \in BOOLEAN : SaveScaler(ok)
    \/ \E ok \in BOOLEAN : SaveMeta(ok)
    \/ \E ok \in BOOLEAN : WriteSummary(ok)
    \/ \E order \in Orders : PipelineUS(order)
    \/ \E saved \in BOOLEAN : PipelineFinish(saved)
    \/ TrainModelsReturn
    \/ Respond

SpecPipeline == Init /\ [][NextPipeline]_vars

(* Bulk runs over dicts of at most one symbol, and status queries between
   and right after them *)
SmallOrders == {order \in Orders : Len(order) <= 1}

NextStatus ==
    \/ \E m \in Markets, order \in SmallOrders : BulkStart(m, order)
    \/ TrainingNext
    \/ TrainingStatus
    \/ Respond

SpecStatus == Init /\ [][NextStatus]_vars

(* Frames of every length up to MaxRows, lookbacks up to MaxLookback *)
NextSequences ==
    \/ \E n \in 0..MaxRows, lookback \in 1..MaxLookback : BuildSequences(n, lookback)
    \/ Respond

SpecSequences == Init /\ [][NextSequences]_vars

(* IndianStockTrainer trains symbols of the NSE file, and the symbols it
   trained are requested from the Inference Path *)
NextIndian ==
    \/ \E symbol \in IndianSymbols, rows \in IndianRows, fault \in IndianFaults :
          IndianTrainStock(symbol, rows, fault)
    \/ \E symbol \in IndianSymbols, d \in FutureDaysChoices, data \in FetchChoices,
          fitRaises \in BOOLEAN, predictRaises \in BOOLEAN :
            Predict(symbol, d, data, fitRaises, predictRaises)
    \/ Respond

SpecIndian == Init /\ [][NextIndian]_vars
----------------------------------------------------------------------------
(* Properties *)

Range(q) == {q[i] : i \in DOMAIN q}

AllPresent(k) == modelFile[k] # Absent /\ scalerFile[k] # Absent /\ metaFile[k] # Absent

Loadable(k) ==
    /\ AllPresent(k)
    /\ modelFile[k] # Corrupt /\ scalerFile[k] # Corrupt /\ metaFile[k] # Corrupt

WrittenBy(k, run) == modelFile[k] = run /\ scalerFile[k] = run /\ metaFile[k] = run

Answered == last # NoValue

(* C1: a request for a symbol whose three files are present and loadable
   fits no model, and its successful result has using_pretrained = true *)
C1_PretrainedServesWithoutTraining ==
    (Answered /\ Loadable(safe_symbol(last.symbol)))
        => /\ last.result.fits = 0
           /\ last.result.success => last.result.using_pretrained = "true"

C1_Witness ==
    /\ Answered
    /\ Loadable(safe_symbol(last.symbol))
    /\ last.result.success
    /\ last.result.calls = last.future_days

(* C2: a request for a symbol whose load returns null fits exactly one model
   and returns a result whose using_pretrained field is false *)
C2_FallbackTrainsOnceFlagFalse ==
    (Answered /\ last.pretrained = NoValue)
        => /\ last.result.fits = 1
           /\ last.result.using_pretrained = "false"

(* C3: when no train_single_stock call is under way, load_pretrained_model
   returns null or a model, scalers and metadata written by one same run *)
C3_LoadFromOneRun ==
    bulkPc \notin {"saveModel", "saveScaler", "saveMeta"}
        => \A s \in Universe :
              LET r == load_pretrained_model(s) IN
              r = NoValue \/ (r.model = r.scalers /\ r.scalers = r.metadata)

(* C4: load_pretrained_model returns null whenever one of the three files of
   the symbol is absent, and a tuple, holding what the three files hold, only
   when all three are present *)
C4_LoadNullUnlessAllPresent ==
    Answered =>
        LET k == safe_symbol(last.symbol) IN
        /\ ~AllPresent(k) => last.pretrained = NoValue
        /\ last.pretrained # NoValue
              => /\ AllPresent(k)
                 /\ last.pretrained = [model |-> modelFile[k], scalers |-> scalerFile[k],
                                       metadata |-> metaFile[k]]

C4_Witness ==
    /\ Answered
    /\ modelFile[safe_symbol(last.symbol)] > 0
    /\ scalerFile[safe_symbol(last.symbol)] = Absent
    /\ metaFile[safe_symbol(last.symbol)] > 0
    /\ last.pretrained = NoValue

Occurrences(s, summary) ==
    Cardinality({i \in DOMAIN summary.models : summary.models[i].symbol = s})
    + Cardinality({i \in DOMAIN summary.failed_symbols : summary.failed_symbols[i] = s})

(* C5: train_all_stocks is left by an exception only after the loop, while the
   summary is written, never because of a symbol; when it returns, every
   symbol of the dict has been attempted, the summary returned is the one
   persisted, each symbol is once among the models or the failed symbols and
   nothing else is, and successful + failed = total_stocks *)
C5_BulkSummaryPartition ==
    /\ bulkPc = "raised" => (queue = <<>> /\ attempted = Range(stock_data))
    /\ bulkPc = "done" =>
          /\ attempted = Range(stock_data)
          /\ summaryFile[Lower(market)] = returned
          /\ returned.total_stocks = Len(stock_data)
          /\ returned.successful = Len(returned.models)
          /\ returned.failed = Len(returned.failed_symbols)
          /\ returned.successful + returned.failed = returned.total_stocks
          /\ \A s \in Universe :
                Occurrences(s, returned) = IF s \in Range(stock_data) THEN 1 ELSE 0

C5_Witness ==
    /\ bulkPc = "done"
    /\ Len(stock_data) = 2
    /\ returned.successful = 1
    /\ returned.failed = 1

(* C6: train_single_stock does not raise; it returns null when it ends for
   any reason but the end of its try block, and the metadata it returns is
   that of a run whose model, scaler and metadata files are written *)
C6_TrainSingleNullOrPersisted ==
    trainResult # NoValue =>
        /\ ~trainResult.raised
        /\ trainResult.cause # "ok" => trainResult.value = NoValue
        /\ trainResult.value # NoValue
              => WrittenBy(safe_symbol(trainResult.symbol), trainResult.value.run)

C6_Witness ==
    /\ trainResult # NoValue
    /\ trainResult.cause = "save_metadata"
    /\ trainResult.value = NoValue
    /\ modelFile[safe_symbol(trainResult.symbol)] > 0
    /\ scalerFile[safe_symbol(trainResult.symbol)] > 0

RequiredKeys ==
    {"symbol", "future_dates", "predictions", "current_price", "predicted_price",
     "price_change_percent", "using_pretrained"}

(* C7: every successful result of run_lstm_prediction_pretrained, from the
   pretrained path or from the fallback, has the fields symbol, future_dates,
   predictions (a list of prices), current_price, predicted_price,
   price_change_percent and using_pretrained *)
C7_SameFieldsOnBothPaths ==
    (Answered /\ last.result.success)
        => /\ RequiredKeys \subseteq last.result.keys
           /\ last.result.predictions = "list"

EmptyResponse == last.data = NoFrame \/ last.data = 0

TooFewRows ==
    /\ last.data > 0
    /\ rows_after_indicators(last.data)
          < (IF last.pretrained # NoValue THEN PRETRAINED_WINDOW
             ELSE LOOKBACK + MIN_EXTRA_ROWS)

ExceptionEvent == last.result.event \in {"training_exception", "prediction_exception"}

FailedLoad == AllPresent(safe_symbol(last.symbol)) /\ ~Loadable(safe_symbol(last.symbol))

IsFailureObject == ~last.result.success /\ "error" \in last.result.keys

(* C8 as stated: the two functions never raise; an empty provider response,
   too few rows, a failed artifact load, a training exception or a prediction
   exception gives success = false with an error message; on an empty
   provider response nothing is fit and no model is called *)
C8_FailureObjectOnEveryFault ==
    Answered =>
        /\ ~last.result.raised
        /\ (EmptyResponse \/ TooFewRows \/ FailedLoad \/ ExceptionEvent) => IsFailureObject
        /\ EmptyResponse => (last.result.fits = 0 /\ last.result.calls = 0)

(* C8 amended: as above, but a failed artifact load is no failure of the
   request: it is answered by the fallback path, never as pretrained *)
C8_FailureObjectOrFallback ==
    Answered =>
        /\ ~last.result.raised
        /\ (EmptyResponse \/ TooFewRows \/ ExceptionEvent) => IsFailureObject
        /\ EmptyResponse => (last.result.fits = 0 /\ last.result.calls = 0)
        /\ FailedLoad => (last.pretrained = NoValue /\ last.result.using_pretrained # "true")

C8_Witness ==
    /\ Answered
    /\ FailedLoad
    /\ last.result.success
    /\ last.result.fits = 1

(* C9: a request with future_days outside 1..90 gets a failure result, and no
   data is fetched, no model fit and no model called for it *)
C9_RejectsOutOfRangeFirst ==
    (Answered /\ (last.future_days < MIN_FUTURE_DAYS \/ last.future_days > MAX_FUTURE_DAYS))
        => /\ ~last.result.success
           /\ last.result.fetches = 0
           /\ last.result.fits = 0
           /\ last.result.calls = 0

(* C10: from the return of train_single_stock with a metadata record until
   the run is over, interrupted or not, the three files of that symbol hold
   what that training wrote *)
C10_PersistedArtifactsKept ==
    \A i \in DOMAIN successful :
        WrittenBy(safe_symbol(successful[i].symbol), successful[i].run)

C10_Witness ==
    /\ bulkPc = "interrupted"
    /\ Len(successful) = 1
    /\ Cardinality(attempted) = 2
    /\ \E s \in attempted :
          /\ s # successful[1].symbol
          /\ modelFile[safe_symbol(s)] > 0
          /\ scalerFile[safe_symbol(s)] = Absent

(* C11: the symbols of the lists have distinct keys, and the artifact a
   request loads is one that was trained for the requested symbol: its
   model, its scalers and its metadata were written by trainings of that
   symbol *)
C11_LoadReturnsOwnArtifact ==
    /\ \A s, t \in Universe : s # t => safe_symbol(s) # safe_symbol(t)
    /\ (Answered /\ last.pretrained # NoValue)
          => /\ trained[last.pretrained.model].symbol = last.symbol
             /\ trained[last.pretrained.scalers].symbol = last.symbol
             /\ trained[last.pretrained.metadata].symbol = last.symbol

TrainerWrites == bulkPc \in {"saveModel", "saveScaler", "saveMeta"}

(* C12: a file that load_pretrained_model reads for some symbol (the model,
   scaler or metadata file of a key) is created or changed only by a step of
   train_single_stock, the save of the Model Store *)
C12_StoreIsSingleWriter ==
    [][\A k \in RequestKeys :
          (\/ modelFile'[k] # modelFile[k]
           \/ scalerFile'[k] # scalerFile[k]
           \/ metaFile'[k] # metaFile[k]) => TrainerWrites]_vars

(* IndianStockTrainer.train_stock returned the metadata for the symbol: its
   three files are those of one run *)
IndianTrained(symbol) ==
    /\ symbol \in IndianSymbols
    /\ modelFile[indian_model_file(symbol)] > 0
    /\ nseScalerFile[symbol] = modelFile[indian_model_file(symbol)]
    /\ nseMetaFile[symbol] = modelFile[indian_model_file(symbol)]

(* C13: a prediction request for a symbol IndianStockTrainer has trained
   finds the artifact, fits no model, and its successful result has
   using_pretrained = true *)
C13_IndianModelServedPretrained ==
    (Answered /\ IndianTrained(last.symbol))
        => /\ last.pretrained # NoValue
           /\ last.result.fits = 0
           /\ last.result.success => last.result.using_pretrained = "true"

(* C14: every metadata file of the store holds the 9 feature names in the
   order of the Sequence Builder and its lookback, and a request that loaded
   an artifact cuts its input window with the feature order and the lookback
   of the metadata it loaded *)
C14_WindowAsInMetadata ==
    /\ \A k \in RequestKeys :
          metaFile[k] > 0 => /\ trained[metaFile[k]].features = features
                             /\ Len(trained[metaFile[k]].features) = 9
                             /\ trained[metaFile[k]].lookback = LOOKBACK
    /\ (Answered /\ last.pretrained # NoValue /\ last.result.window # NoValue)
          => /\ last.result.window.features = trained[last.pretrained.metadata].features
             /\ last.result.window.lookback = trained[last.pretrained.metadata].lookback

C14_Witness ==
    /\ Answered
    /\ last.pretrained # NoValue
    /\ last.result.success
    /\ last.result.window.lookback = trained[last.pretrained.metadata].lookback

(* C15: a request that loaded an artifact fits no scaler; its window is
   transformed by the feature scaler of the loaded scaler file and its
   predictions are inverse-transformed by the target scaler of the same
   file *)
C15_LoadedScalersOnly ==
    (Answered /\ last.pretrained # NoValue)
        => LET sc == last.result IN
           /\ sc.scaler_fits = 0
           /\ sc.transform_with # NoValue
                 => sc.transform_with = [scaler |-> "feature_scaler",
                                         run |-> last.pretrained.scalers]
           /\ sc.inverse_with # NoValue
                 => sc.inverse_with = [scaler |-> "target_scaler",
                                       run |-> last.pretrained.scalers]
           /\ sc.success => (sc.transform_with # NoValue /\ sc.inverse_with # NoValue)

C15_Witness ==
    /\ Answered
    /\ last.pretrained # NoValue
    /\ last.result.success
    /\ last.result.inverse_with.scaler = "target_scaler"
    /\ last.result.n = MAX_FUTURE_DAYS

Active(p) == workers[p].pc # "idle"

(* The calls under way are for different symbols *)
DifferentSymbols ==
    \A p, q \in Procs :
        (p # q /\ Active(p) /\ Active(q)) => workers[p].symbol # workers[q].symbol

(* The files of the symbol of process p hold what p alone has written so far *)
OwnWritesStand(p) ==
    LET w == workers[p]
        k == safe_symbol(w.symbol)
    IN  /\ (w.pc \in {"saveScaler", "saveMeta"} \/ w.cause \in {"save_scaler", "save_metadata", "ok"})
              => modelFile[k] = w.run
        /\ (w.pc = "saveMeta" \/ w.cause \in {"save_metadata", "ok"})
              => scalerFile[k] = w.run
        /\ w.cause = "ok" => metaFile[k] = w.run

(* A file of key k changes only in a step of a process training a symbol of
   key k *)
OnlyOwnFilesWritten ==
    \A k \in RequestKeys :
        (\/ modelFile'[k] # modelFile[k]
         \/ scalerFile'[k] # scalerFile[k]
         \/ metaFile'[k] # metaFile[k])
            => \E p \in Procs : /\ workers'[p] # workers[p]
                                 /\ Active(p)
                                 /\ safe_symbol(workers[p].symbol) = k

(* C16: a step of a training changes only files of its own symbol, and while
   the trainings under way are for different symbols the files of each hold
   what its training has written so far, as if it ran alone: the store is
   left as any sequential order of the trainings leaves it *)
C16_DifferentSymbolsIndependent ==
    /\ [](DifferentSymbols => \A p \in Procs : Active(p) => OwnWritesStand(p))
    /\ [][OnlyOwnFilesWritten]_vars

C16_Witness ==
    /\ workers["p1"].pc = "done"
    /\ workers["p1"].cause = "ok"
    /\ workers["p2"].pc = "saveScaler"
    /\ workers["p2"].run < workers["p1"].run
    /\ workers["p2"].symbol # workers["p1"].symbol

(* C17: whatever trainings of a symbol run at the same time or are under way,
   a load returns null or the model, scalers and metadata of one training,
   and when no training is under way the three files of a symbol that are
   there are those of one training *)
C17_LastWriterWins ==
    /\ (Answered /\ last.pretrained # NoValue)
          => /\ last.pretrained.model = last.pretrained.scalers
             /\ last.pretrained.scalers = last.pretrained.metadata
    /\ (\A p \in Procs : workers[p].pc \in {"idle", "done"} /\
                           (Active(p) => workers[p].cause = "ok"))
          => \A k \in Keys :
                Loadable(k) => (modelFile[k] = scalerFile[k] /\ scalerFile[k] = metaFile[k])

(* C18: when the Indian stage of the pipeline has completed, the response of
   the training endpoint carries the summary that stage returned, whatever
   happened after it *)
C18_PartialSummaryReturned ==
    (Answered /\ last.endpoint = "train-models" /\ last.indian_summary # NoValue)
        => /\ last.body # NoValue
           /\ last.body.indian_summary = last.indian_summary

StatusField(m) == IF m = "Indian" THEN "indian_stocks" ELSE "us_stocks"

(* C19: a status query made after train_all_stocks has returned reports the
   summary that run returned under its market, and total_models is the sum
   of the successful counts of the summaries reported, that run's among
   them *)
C19_StatusReportsSummary ==
    (bulkPc = "done" /\ Answered /\ last.endpoint = "training-status")
        => /\ last.status # NoValue
           /\ last.status[StatusField(market)] = returned
           /\ last.status.total_models >= returned.successful

(* C20: on a frame of N rows and a lookback L <= N the Sequence Builder gives
   N - L samples (none when N < L); sample k has the rows k .. k+L-1 as its
   window, in this order, and row k+L as its label, so every row of a window
   lies before the row of its label *)
C20_CausalWindows ==
    Answered =>
        LET N == last.rows
            L == last.lookback
            S == last.samples
        IN  /\ Len(S) = (IF N >= L THEN N - L ELSE 0)
            /\ \A k \in 0..(Len(S) - 1) :
                  /\ S[k + 1].X = [j \in 1..L |-> k + j - 1]
                  /\ S[k + 1].y = k + L
                  /\ \A j \in DOMAIN S[k + 1].X : S[k + 1].X[j] < S[k + 1].y

C20_Witness ==
    /\ Answered
    /\ last.rows = MaxRows
    /\ last.lookback = 3
    /\ Len(last.samples) = MaxRows - 3
    /\ last.samples[2].X = <<1, 2, 3>>
    /\ last.samples[2].y = 4

----------------------------------------------------------------------------
(* The recursive forecast loop of predict_future and of the pretrained path,
   followed one iteration at a time *)

(* Scaled values model.predict may return *)
Predictions == {1, 2}

(* Row i of the scaled window: its close, and the row of the frame its
   other 8 features come from *)
HistoricalRow(i) == [close |-> 0, others |-> i]

(* last_sequence_scaled: the last `lookback` rows of the frame *)
last_sequence(lookback) == [i \in 1..lookback |-> HistoricalRow(i)]

(* The synthetic row takes its other features from the oldest row *)
slide_oldest(current_sequence, next_pred) ==
    Tail(current_sequence)
        \o <<[current_sequence[1] EXCEPT !.close = next_pred]>>

(* last_features = current_sequence[-1].copy(); last_features[0] = next_pred;
   current_sequence = vstack([current_sequence[1:], last_features]) *)
slide(current_sequence, next_pred) ==
    Tail(current_sequence)
        \o <<[current_sequence[Len(current_sequence)] EXCEPT !.close = next_pred]>>

(* predictions = [], current_sequence = last_sequence_scaled.copy() *)
ForecastBegin(lookback, days) ==
    /\ bulkPc = "idle"
    /\ last = NoValue
    /\ last' = [loop |-> "forecast", lookback |-> lookback, days |-> days,
                iterations |-> 0, predictions |-> <<>>,
                current_sequence |-> last_sequence(lookback)]
    /\ UNCHANGED <<storeVars, summaryFile, nextRun, trained, bulkVars, sideVars>>

(* One iteration of `for _ in range(days)` *)
ForecastStep(next_pred) ==
    /\ last # NoValue
    /\ last.iterations < last.days
    /\ last' = [last EXCEPT !.iterations = @ + 1,
                            !.predictions = Append(@, next_pred),
                            !.current_sequence = slide(@, next_pred)]
    /\ UNCHANGED <<storeVars, summaryFile, nextRun, trained, bulkVars, sideVars>>

(* range(days) is exhausted: the loop is left *)
ForecastEnd ==
    /\ last # NoValue
    /\ last.iterations >= last.days
    /\ last' = NoValue
    /\ UNCHANGED <<storeVars, summaryFile, nextRun, trained, bulkVars, sideVars>>

NextForecast ==
    \/ \E lookback \in 1..MaxLookback, days \in 0..MaxDays : ForecastBegin(lookback, days)
    \/ \E next_pred \in Predictions : ForecastStep(next_pred)
    \/ ForecastEnd

SpecForecast == Init /\ [][NextForecast]_vars

(* After k iterations k predictions are recorded, the window has L rows and
   is the historical window slid k times *)
WindowSlidTimes ==
    Answered =>
        LET L == last.lookback
            k == last.iterations
            w == last.current_sequence
        IN  /\ Len(last.predictions) = k
            /\ k <= last.days
            /\ Len(w) = L
            /\ \A i \in 1..L :
                  w[i] = IF i + k <= L THEN HistoricalRow(i + k)
                         ELSE [close |-> last.predictions[i + k - L], others |-> L]

(* The loop is left after `days` iterations, with `days` predictions *)
LeftAfterAllDays ==
    (Answered /\ last' = NoValue)
        => (last.iterations = last.days /\ Len(last.predictions) = last.days)

(* C21: in the forecast loop with lookback L and future_days d, after k
   iterations k predictions are recorded and k <= d, the loop is left only
   with k = d, the window has L rows, and the window is the historical
   window slid k times: its rows are the rows k+1 .. L of the historical
   window followed by one row per prediction, in order, each with the
   prediction as its close and the other features of the last historical
   row *)
C21_ForecastLoopSlides == []WindowSlidTimes /\ [][LeftAfterAllDays]_vars

C21_Witness ==
    /\ Answered
    /\ last.lookback = 2
    /\ last.days = MaxDays
    /\ last.iterations = MaxDays
    /\ last.predictions[1] = 1
    /\ last.predictions[2] = 2
    /\ last.current_sequence[1] = [close |-> 2, others |-> 2]

----------------------------------------------------------------------------
(* The Sequence Builder on frames around its length threshold *)

RowChoices ==
    (LOOKBACK + MIN_EXTRA_ROWS - RowMargin)..(LOOKBACK + MIN_EXTRA_ROWS + RowMargin)

(* Cells of a feature column with the finite values told apart, and columns
   long enough for a gap between two values *)
Cells == {"a", "b", "nan", "inf"}
LongColumns == [1..(ColLen + 1) -> Cells]

BuilderFrames == [hasClose : BOOLEAN, rows : RowChoices, col : LongColumns]

(* The frame is refused only below lookback + 49 rows *)
prepare_data_late(rows) ==
    IF rows < LOOKBACK + MIN_EXTRA_ROWS - 1
    THEN [why |-> "insufficient", raised |-> TRUE, samples |-> 0, scalers |-> 0]
    ELSE [why |-> "ok", raised |-> FALSE, samples |-> rows - LOOKBACK, scalers |-> 2]

(* LSTMPredictor.prepare_data on a frame that has `rows` rows after dropna:
   ValueError below lookback + 50 rows, else both scalers are fit and the
   sequences built *)
prepare_data(rows) ==
    IF rows < LOOKBACK + MIN_EXTRA_ROWS
    THEN [why |-> "insufficient", raised |-> TRUE, samples |-> 0, scalers |-> 0]
    ELSE [why |-> "ok", raised |-> FALSE, samples |-> rows - LOOKBACK, scalers |-> 2]

(* ModelTrainer.prepare_stock_data is called on a frame *)
PrepareStockData(df) ==
    /\ bulkPc = "idle"
    /\ last = NoValue
    /\ last' = [builder |-> "ModelTrainer", df |-> df, rows |-> df.rows,
                prepared |-> prepare_stock_data(df) @@ [raised |-> FALSE]]
    /\ UNCHANGED <<storeVars, summaryFile, nextRun, trained, bulkVars, sideVars>>

(* LSTMPredictor.prepare_data is called on a frame *)
PrepareData(rows) ==
    /\ bulkPc = "idle"
    /\ last = NoValue
    /\ last' = [builder |-> "LSTMPredictor", rows |-> rows, prepared |-> prepare_data(rows)]
    /\ UNCHANGED <<storeVars, summaryFile, nextRun, trained, bulkVars, sideVars>>

NextBuilder ==
    \/ \E df \in BuilderFrames : PrepareStockData(df)
    \/ \E rows \in RowChoices : PrepareData(rows)
    \/ Respond

SpecBuilder == Init /\ [][NextBuilder]_vars

(* C22: on a frame with a Close column, the Sequence Builder of the Trainer
   and that of the fallback predictor refuse the frame for lack of data
   exactly when it has fewer than lookback + 50 rows, and then give no
   sequence and fit no scaler; the predictor raises, the Trainer returns
   None *)
C22_InsufficientBelowThreshold ==
    (Answered /\ (last.builder = "ModelTrainer" => last.df.hasClose))
        => /\ (last.prepared.why = "insufficient") <=> (last.rows < LOOKBACK + MIN_EXTRA_ROWS)
           /\ last.prepared.why = "insufficient"
                 => /\ last.prepared.samples = 0
                    /\ last.prepared.scalers = 0
                    /\ last.prepared.raised = (last.builder = "LSTMPredictor")
           /\ last.rows >= LOOKBACK + MIN_EXTRA_ROWS
                 => last.prepared.samples = last.rows - LOOKBACK

C22_Witness ==
    /\ Answered
    /\ last.builder = "LSTMPredictor"
    /\ last.rows = LOOKBACK + MIN_EXTRA_ROWS - 1
    /\ last.prepared.raised

(* What forward-fill, then back-fill, then zero-fill leave in cell i of a
   column: the cell if it is finite, else the nearest finite cell above it,
   else the nearest finite cell below it, else zero *)
Filled(col, i) ==
    LET above == {j \in 1..i : isfinite(col[j])}
        below == {j \in i..Len(col) : isfinite(col[j])}
    IN  IF above # {} THEN col[CHOOSE j \in above : \A h \in above : h <= j]
        ELSE IF below # {} THEN col[CHOOSE j \in below : \A h \in below : j <= h]
        ELSE "0"

(* C23: the feature matrix the Trainer fits its scalers and model on has no
   missing or non-finite value: each such value of the frame was
   forward-filled, else back-filled, else zero-filled, and the finite values
   are kept; when prepare_stock_data still finds one it returns None and no
   scaler is fit *)
C23_FitOnFiniteFeatures ==
    (Answered /\ last.builder = "ModelTrainer")
        => /\ last.prepared.why = "ok"
                 => /\ last.prepared.scalers = 2
                    /\ isfinite_all(last.prepared.feature_data)
                    /\ \A i \in DOMAIN last.df.col :
                          last.prepared.feature_data[i] = Filled(last.df.col, i)
           /\ last.prepared.why # "ok"
                 => (last.prepared.scalers = 0 /\ last.prepared.samples = 0)

C23_Witness ==
    /\ Answered
    /\ last.builder = "ModelTrainer"
    /\ last.prepared.why = "ok"
    /\ last.df.col[1] = "a"
    /\ last.df.col[2] = "inf"
    /\ last.df.col[3] = "b"
    /\ last.prepared.feature_data[2] = "a"

----------------------------------------------------------------------------
(* The split and the fit of train_single_stock and of the fallback predictor *)

(* The test set starts one sample early *)
train_test_split_overlap(X) ==
    [train |-> py_slice(X, 0, split_idx(Len(X))),
     test |-> py_slice(X, split_idx(Len(X)) - 1, Len(X))]

(* X_train, X_test = X[:split_idx], X[split_idx:] *)
train_test_split(X) ==
    [train |-> py_slice(X, 0, split_idx(Len(X))),
     test |-> py_slice(X, split_idx(Len(X)), Len(X))]

Min(a, b) == IF a <= b THEN a ELSE b
Max(a, b) == IF a >= b THEN a ELSE b

(* The requested batch size is used as it is *)
actual_batch_size_requested(batch_size, train_samples) == batch_size

(* actual_batch_size = min(batch_size, max(8, len(X_train) // 10)) *)
actual_batch_size(batch_size, train_samples) ==
    Min(batch_size, Max(8, train_samples \div 10))

(* model.fit(..., validation_split=0.05): the samples the batches are drawn
   from, the rest of X_train being held out for validation *)
fit_samples(train_samples) == (train_samples * 95) \div 100

(* Sample counts an accepted frame gives: at least lookback + 50 rows, one
   sample per row after the first `lookback` *)
SampleCounts == MIN_EXTRA_ROWS..(MIN_EXTRA_ROWS + MaxExtraSamples)

BatchSizes == {1, 7, 8, 9, 10, 32, 64}

(* train_single_stock from the split to model.fit, on n samples in the order
   of their rows *)
SplitAndFit(n, batch_size) ==
    /\ bulkPc = "idle"
    /\ last = NoValue
    /\ LET split == train_test_split(Frame(n))
           metadata == Metadata(SymT, nextRun, n)
       IN  last' = [samples |-> n, batch_size |-> batch_size,
                    X_train |-> split.train, X_test |-> split.test,
                    training_samples |-> metadata.training_samples,
                    test_samples |-> metadata.test_samples,
                    actual_batch_size |-> actual_batch_size(batch_size, Len(split.train)),
                    fit_on |-> fit_samples(Len(split.train))]
    /\ UNCHANGED <<storeVars, summaryFile, nextRun, trained, bulkVars, sideVars>>

NextFit ==
    \/ \E n \in SampleCounts, batch_size \in BatchSizes : SplitAndFit(n, batch_size)
    \/ Respond

SpecFit == Init /\ [][NextFit]_vars

(* C24: of n samples in the order of their rows, the training set is the
   first floor(0.8 n) and the test set the rest, in order: every training
   sample is before every test sample, none is in both, and the recorded
   training_samples and test_samples are their numbers and add up to n *)
C24_ChronologicalSplit ==
    Answered =>
        LET n == last.samples
            t == (4 * n) \div 5
        IN  /\ last.X_train = [i \in 1..t |-> i - 1]
            /\ last.X_test = [i \in 1..(n - t) |-> t + i - 1]
            /\ \A i \in DOMAIN last.X_train, j \in DOMAIN last.X_test :
                  last.X_train[i] < last.X_test[j]
            /\ last.training_samples = Len(last.X_train)
            /\ last.test_samples = Len(last.X_test)
            /\ last.training_samples + last.test_samples = n

C24_Witness ==
    /\ Answered
    /\ last.samples = MIN_EXTRA_ROWS + 1
    /\ last.training_samples = 40
    /\ last.test_samples = 11
    /\ last.X_test[1] = 40

(* C25: for a requested batch size of 1 or more and the training samples of
   an accepted frame, the batch size of the fit is the requested one capped
   by the larger of 8 and a tenth of the training samples, and it is at
   least 1 and at most the number of samples the fit draws its batches from *)
C25_BatchWithinSamples ==
    Answered =>
        LET t == Len(last.X_train)
            cap == IF t \div 10 > 8 THEN t \div 10 ELSE 8
        IN  /\ last.actual_batch_size = (IF last.batch_size < cap THEN last.batch_size ELSE cap)
            /\ last.actual_batch_size >= 1
            /\ last.actual_batch_size <= last.fit_on
            /\ last.fit_on <= t

C25_Witness ==
    /\ Answered
    /\ last.batch_size = 64
    /\ Len(last.X_train) = 100
    /\ last.actual_batch_size = 10

(* C26: a successful result for future_days = d, from the pretrained path
   or from the fallback, has d predicted prices and d future dates; the
   dates are strictly increasing, and each is after the last historical
   date *)
C26_FutureDatesAfterHistory ==
    (Answered /\ last.result.success)
        => LET dates == last.result.future_dates IN
           /\ last.result.n = last.future_days
           /\ last.result.calls = last.future_days
           /\ Len(dates) = last.future_days
           /\ \A i, j \in DOMAIN dates : i < j => dates[i] < dates[j]
           /\ \A i \in DOMAIN dates : dates[i] > last.result.last_historical

C26_Witness ==
    /\ Answered
    /\ last.result.success
    /\ last.result.using_pretrained = "true"
    /\ last.future_days = 90
    /\ Len(last.result.future_dates) = 90
    /\ last.result.future_dates[1] = last.result.last_historical + 1

----------------------------------------------------------------------------
(* The RSI of calculate_technical_indicators, in exact arithmetic: a value
   is a fraction in lowest terms, NaN, or an infinity with its sign *)

RECURSIVE GCD(_, _)
GCD(a, b) == IF b = 0 THEN a ELSE GCD(b, a % b)

Abs(n) == IF n < 0 THEN -n ELSE n

NaN == [kind |-> "nan", num |-> 0, den |-> 0]
Inf(sign) == [kind |-> "inf", num |-> sign, den |-> 0]

Frac(n, d) ==
    LET g == GCD(Abs(n), Abs(d))
        s == IF d < 0 THEN -1 ELSE 1
    IN  [kind |-> "num", num |-> (s * n) \div g, den |-> (s * d) \div g]

Whole(n) == Frac(n, 1)

Sign(n) == IF n < 0 THEN -1 ELSE 1

(* IEEE a + b, a - b and a / b on these values *)
add(a, b) ==
    IF a.kind = "nan" \/ b.kind = "nan" THEN NaN
    ELSE IF a.kind = "inf" /\ b.kind = "inf" THEN (IF a.num = b.num THEN a ELSE NaN)
    ELSE IF a.kind = "inf" THEN a
    ELSE IF b.kind = "inf" THEN b
    ELSE Frac(a.num * b.den + b.num * a.den, a.den * b.den)

negate(a) == IF a.kind = "nan" THEN NaN ELSE [a EXCEPT !.num = -@]

subtract(a, b) == add(a, negate(b))

divide(a, b) ==
    IF a.kind = "nan" \/ b.kind = "nan" THEN NaN
    ELSE IF a.kind = "inf" THEN (IF b.kind = "inf" THEN NaN ELSE Inf(a.num * Sign(b.num)))
    ELSE IF b.kind = "inf" THEN Whole(0)
    ELSE IF b.num = 0 THEN (IF a.num = 0 THEN NaN ELSE Inf(Sign(a.num)))
    ELSE Frac(a.num * b.den, a.den * b.num)

(* a <= b for values that are not NaN *)
leq(a, b) ==
    IF a.kind = "inf" THEN (a.num < 0 \/ (b.kind = "inf" /\ b.num > 0))
    ELSE IF b.kind = "inf" THEN b.num > 0
    ELSE a.num * b.den <= b.num * a.den

(* Series.replace(0, np.nan), .replace([np.inf, -np.inf], v), .fillna(v) and
   .clip(lo, hi) on one value *)
replace_zero(x) == IF x.kind = "num" /\ x.num = 0 THEN NaN ELSE x
replace_inf(x, v) == IF x.kind = "inf" THEN v ELSE x
fillna(x, v) == IF x.kind = "nan" THEN v ELSE x
clip(x, lo, hi) ==
    IF x.kind = "nan" THEN x
    ELSE IF leq(x, lo) THEN lo
    ELSE IF leq(hi, x) THEN hi
    ELSE x

(* delta = Close.diff(): NaN in the first row *)
diff(close, i) == IF i = 1 THEN NaN ELSE Whole(close[i] - close[i - 1])

(* delta.where(delta > 0, 0) and -delta.where(delta < 0, 0): a NaN delta
   fails the comparison and gives 0 *)
gain_of(delta) == IF delta.kind = "num" /\ delta.num > 0 THEN delta ELSE Whole(0)
loss_of(delta) == IF delta.kind = "num" /\ delta.num < 0 THEN negate(delta) ELSE Whole(0)

(* The sum of the rows from..to of a series *)
RECURSIVE total(_, _, _)
total(series, from, to) ==
    IF from > to THEN Whole(0) ELSE add(series[from], total(series, from + 1, to))

(* The gain and loss columns *)
gain_at(close) == [i \in 1..Len(close) |-> gain_of(diff(close, i))]
loss_at(close) == [i \in 1..Len(close) |-> loss_of(diff(close, i))]

(* .rolling(window=14).mean(): NaN until 14 rows are in the window *)
rolling_mean(series, i) ==
    IF i < RSI_WINDOW THEN NaN
    ELSE divide(total(series, i - RSI_WINDOW + 1, i), Whole(RSI_WINDOW))

(* rs = gain / loss, as LSTMPredictor computes it *)
relative_strength_raw(gain, loss) == divide(gain, loss)

(* rs = gain / loss.replace(0, np.nan);
   rs = rs.replace([np.inf, -np.inf], 100).fillna(50) *)
relative_strength(gain, loss) ==
    fillna(replace_inf(divide(gain, replace_zero(loss)), Whole(100)), Whole(50))

(* RSI = 100 - (100 / (1 + rs)), then .clip(0, 100) *)
rsi_value(rs) ==
    clip(subtract(Whole(100), divide(Whole(100), add(Whole(1), rs))), Whole(0), Whole(100))

RSI(close, i) ==
    rsi_value(relative_strength(rolling_mean(gain_at(close), i),
                                rolling_mean(loss_at(close), i)))

(* Day-to-day moves of the close, and the series of moves made of up to
   three runs of equal moves *)
Moves == {-1, 0, 1}

Runs ==
    {[i \in 1..(u + v + w) |-> IF i <= u THEN a ELSE IF i <= u + v THEN b ELSE c] :
        <<a, b, c>> \in Moves \X Moves \X Moves,
        <<u, v, w>> \in {t \in (0..(RSI_WINDOW + RsiExtraRows - 1))
                                \X (0..(RSI_WINDOW + RsiExtraRows - 1))
                                \X (0..(RSI_WINDOW + RsiExtraRows - 1)) :
                            t[1] + t[2] + t[3] <= RSI_WINDOW + RsiExtraRows - 1}}

RECURSIVE closes(_, _)
closes(first, moves) ==
    IF moves = <<>> THEN <<first>>
    ELSE <<first>> \o closes(first + Head(moves), Tail(moves))

(* Close columns of positive prices of 1 to RSI_WINDOW + RsiExtraRows rows *)
PriceSeries == {closes(100, moves) : moves \in Runs}

(* calculate_technical_indicators on a frame with these closes: the rolling
   means of the gains and losses and the RSI column *)
CalculateRSI(close) ==
    /\ bulkPc = "idle"
    /\ last = NoValue
    /\ last' = [close |-> close,
                gain |-> [i \in DOMAIN close |-> rolling_mean(gain_at(close), i)],
                loss |-> [i \in DOMAIN close |-> rolling_mean(loss_at(close), i)],
                RSI |-> [i \in DOMAIN close |-> RSI(close, i)]]
    /\ UNCHANGED <<storeVars, summaryFile, nextRun, trained, bulkVars, sideVars>>

NextRSI ==
    \/ \E close \in PriceSeries : CalculateRSI(close)
    \/ Respond

SpecRSI == Init /\ [][NextRSI]_vars

(* C27: a row whose 14-day window has zero total loss has RSI = 50 or
   RSI = 100 *)
C27_ZeroLossNeutralOrFull ==
    Answered =>
        \A i \in DOMAIN last.close :
            (last.loss[i].kind = "num" /\ last.loss[i].num = 0)
                => last.RSI[i] \in {Whole(50), Whole(100)}

(* C28: every RSI value is a number between 0 and 100, on rows whose window
   is incomplete and on windows with zero gain, zero loss or both as well *)
C28_RsiDefinedInRange ==
    Answered =>
        \A i \in DOMAIN last.close :
            /\ last.RSI[i].kind = "num"
            /\ leq(Whole(0), last.RSI[i])
            /\ leq(last.RSI[i], Whole(100))

C28_Witness ==
    /\ Answered
    /\ Len(last.close) = RSI_WINDOW + 1
    /\ last.gain[1].kind = "nan"
    /\ last.loss[RSI_WINDOW] = Whole(0)
    /\ last.gain[RSI_WINDOW] = Whole(0)
    /\ last.gain[RSI_WINDOW + 1] = Frac(1, RSI_WINDOW)
    /\ last.RSI[RSI_WINDOW + 1] = Frac(5000, 51)

----------------------------------------------------------------------------
(* A request served without an artifact leaves the three files of every key
   as they were *)
FallbackWritesNothing ==
    (last = NoValue /\ last' # NoValue /\ last'.pretrained = NoValue)
        => storeVars' = storeVars

(* While the answer of a request served without an artifact is the last
   thing that happened, a load for its symbol misses *)
MissesAgain ==
    (Answered /\ last.pretrained = NoValue) => load_pretrained_model(last.symbol) = NoValue

(* C29: a request served by the fallback writes no model, scaler or
   metadata file, so that the next request for the symbol finds no artifact
   either *)
C29_FallbackLeavesStore == []MissesAgain /\ [][FallbackWritesNothing]_vars

C29_Witness ==
    /\ Answered
    /\ last.pretrained = NoValue
    /\ last.result.success
    /\ last.result.fits = 1
    /\ load_pretrained_model(last.symbol) = NoValue
    /\ \E k \in Keys : modelFile[k] # Absent

----------------------------------------------------------------------------
(* rate_limit_middleware of main.py.  A request is handled in one step: the
   handler is awaited inside the middleware. *)

CACHE_LIMIT == 1000     \* len(response_cache) > 1000
CACHE_EVICT == 100      \* the oldest 100 keys go

(* max_requests: twice the limit for localhost *)
max_requests(client_ip) ==
    IF client_ip \in {"127.0.0.1", "localhost"}
    THEN RATE_LIMIT_REQUESTS * 2
    ELSE RATE_LIMIT_REQUESTS

(* Entries are dropped one tick before the window has passed *)
unexpired_early(times, current_time) ==
    SelectSeq(times, LAMBDA req_time : current_time - req_time < RATE_LIMIT_WINDOW - 1)

(* [req_time for req_time in ... if current_time - req_time < RATE_LIMIT_WINDOW] *)
unexpired(times, current_time) ==
    SelectSeq(times, LAMBDA req_time : current_time - req_time < RATE_LIMIT_WINDOW)

(* The oldest CACHE_EVICT keys are deleted once the cache has more than
   CACHE_LIMIT entries *)
evict_oldest(cache) ==
    LET keys == {k \in DOMAIN cache : cache[k] # NoEntry} IN
    IF Cardinality(keys) <= CACHE_LIMIT THEN cache
    ELSE LET oldest == CHOOSE S \in SUBSET keys :
                          /\ Cardinality(S) = CACHE_EVICT
                          /\ \A k \in S, j \in keys \ S : cache[k].time <= cache[j].time
         IN  [k \in DOMAIN cache |-> IF k \in oldest THEN NoEntry ELSE cache[k]]

(* One request of client_ip with this method goes through the middleware;
   if it reaches a handler, the handler answers with `status`, and `json`
   tells whether the middleware can read a JSON body from the response *)
RateLimit(client_ip, method, status, json) ==
    LET current_time == now
        cache_key == method
        hit == /\ response_cache[cache_key] # NoEntry
               /\ current_time - response_cache[cache_key].time < CACHE_DURATION
        cache == IF response_cache[cache_key] # NoEntry /\ ~hit
                 THEN [response_cache EXCEPT ![cache_key] = NoEntry]
                 ELSE response_cache
        times == unexpired(rate_limit_store[client_ip], current_time)
    IN
    /\ bulkPc = "idle"
    /\ IF hit
       THEN /\ last' = [client_ip |-> client_ip, method |-> method, status |-> 200,
                        served |-> "cache"]
            /\ UNCHANGED <<rate_limit_store, response_cache, forwarded>>
       ELSE IF Len(times) >= max_requests(client_ip)
       THEN /\ last' = [client_ip |-> client_ip, method |-> method, status |-> 429,
                        served |-> "limit"]
            /\ rate_limit_store' = [rate_limit_store EXCEPT ![client_ip] = times]
            /\ response_cache' = cache
            /\ forwarded' = forwarded
       ELSE /\ last' = [client_ip |-> client_ip, method |-> method, status |-> status,
                        served |-> "handler"]
            /\ rate_limit_store' =
                   [rate_limit_store EXCEPT ![client_ip] = Append(times, current_time)]
            /\ forwarded' = [forwarded EXCEPT ![client_ip][0] = @ + 1]
            /\ response_cache' =
                   IF method = "GET" /\ status = 200 /\ json
                   THEN evict_oldest([cache EXCEPT ![cache_key] =
                                         [cached |-> TRUE, body |-> status,
                                          time |-> current_time]])
                   ELSE cache
    /\ UNCHANGED <<now, storeVars, summaryFile, nextRun, trained, bulkVars,
                   nseScalerFile, nseMetaFile, workers, pipe>>

(* The clock moves on by one tick; `forwarded` keeps the last
   RATE_LIMIT_WINDOW ticks *)
Tick ==
    /\ now < MaxTime
    /\ now' = now + 1
    /\ forwarded' = [c \in Clients |->
                        [age \in 0..(RATE_LIMIT_WINDOW - 1) |->
                            IF age = 0 THEN 0 ELSE forwarded[c][age - 1]]]
    /\ UNCHANGED <<rate_limit_store, response_cache, last, storeVars, summaryFile,
                   nextRun, trained, bulkVars, nseScalerFile, nseMetaFile, workers, pipe>>

Statuses == {200, 500}

NextRateLimit ==
    \/ \E client_ip \in Clients, method \in Methods, status \in Statuses, json \in BOOLEAN :
          RateLimit(client_ip, method, status, json)
    \/ Tick

SpecRateLimit == Init /\ [][NextRateLimit]_vars

RECURSIVE SumTo(_, _)
SumTo(f, n) == IF n < 0 THEN 0 ELSE f[n] + SumTo(f, n - 1)

(* Requests of the client handed to a handler in the last RATE_LIMIT_WINDOW
   ticks, the present one included *)
InWindow(c) == SumTo(forwarded[c], RATE_LIMIT_WINDOW - 1)

(* The limit the middleware is to keep for a client: RATE_LIMIT_REQUESTS, or
   twice that for localhost *)
ClientLimit(c) ==
    IF c = "127.0.0.1" THEN 2 * RATE_LIMIT_REQUESTS ELSE RATE_LIMIT_REQUESTS

(* At most the limit of a client's requests reach a handler in a window *)
WithinLimit == \A c \in Clients : InWindow(c) <= ClientLimit(c)

(* A request goes to a handler only below the limit, and is recorded; one
   answered with 429 or from the cache reaches no handler and adds no entry
   to the list of its client; 429 is given only at the limit *)
LimitedStep ==
    (now' = now /\ last' # NoValue) =>
        LET c == last'.client_ip IN
        /\ last'.served = "handler"
              => /\ InWindow(c) < ClientLimit(c)
                 /\ forwarded'[c][0] = forwarded[c][0] + 1
                 /\ rate_limit_store'[c]
                       = Append(unexpired(rate_limit_store[c], now), now)
        /\ last'.served = "limit"
              => /\ last'.status = 429
                 /\ InWindow(c) >= ClientLimit(c)
                 /\ forwarded' = forwarded
                 /\ rate_limit_store'[c] = unexpired(rate_limit_store[c], now)
        /\ last'.served = "cache"
              => /\ forwarded' = forwarded
                 /\ rate_limit_store' = rate_limit_store
        /\ \A d \in Clients \ {c} :
              forwarded'[d] = forwarded[d] /\ rate_limit_store'[d] = rate_limit_store[d]

(* C30: in any RATE_LIMIT_WINDOW ticks at most the limit of a client (twice
   the limit for localhost) of its requests reach a handler; a request over
   the limit that the cache does not answer gets 429 and is not recorded,
   and a request answered from the cache adds no entry to the list of its
   client *)
C30_RateLimitPerWindow == []WithinLimit /\ [][LimitedStep]_vars

C30_Witness ==
    /\ Answered
    /\ last.client_ip = "203.0.113.7"
    /\ last.served = "limit"
    /\ last.status = 429
    /\ InWindow("203.0.113.7") = RATE_LIMIT_REQUESTS
    /\ forwarded["203.0.113.7"][0] < RATE_LIMIT_REQUESTS
    /\ InWindow("127.0.0.1") > RATE_LIMIT_REQUESTS
    /\ response_cache["GET"] # NoEntry
====
